---- MODULE Spec2Model ----
(***************************************************************************)
(* A model of imcsdk/imccore.py: the ImcBase object tree (children, dirty  *)
(* mask, handle, clone), the generic attribute path attr_set, and the      *)
(* BaseObject XML serializer / deserializer.                               *)
(*                                                                         *)
(* Python objects live in a heap: objs[i] is object i (its class and its   *)
(* __dict__), lists[l] is list object l.  A Python value is a record       *)
(* [t, s, n]: a str, an int, None, or a reference to a list object.        *)
(***************************************************************************)
EXTENDS Integers, Sequences, FiniteSets, TLC

VARIABLES objs, lists, docs, last, clones, nops

vars == <<objs, lists, docs, last, clones, nops>>

\* ------------------------------------------------------------ bounds
MaxObjs == 3
MaxOps == 6

\* ------------------------------------------------------------ values
Str(x) == [t |-> "str", s |-> x, n |-> 0]
Num(i) == [t |-> "int", s |-> "", n |-> i]
None == [t |-> "None", s |-> "", n |-> 0]
ListRef(l) == [t |-> "list", s |-> "", n |-> l]

EmptyDict == [k \in {} |-> None]
DictSet(d, k, v) == [x \in (DOMAIN d) \cup {k} |-> IF x = k THEN v ELSE d[x]]

\* The names the model uses that begin with the private marker "_".
ReservedKeys == {"_class_id", "_child", "_handle", "_tag_name", "_dirty_mask"}
startswith_underscore(key) == key \in ReservedKeys

\* ------------------------------------------------------------ heap
Heap == [objs |-> objs, lists |-> lists]
Nodes(h) == 1..Len(h.objs)
Dict(h, n) == h.objs[n].d
child(h, n) == h.lists[Dict(h, n)["_child"].n]
Range(s) == {s[i] : i \in 1..Len(s)}

RECURSIVE Reach(_, _)
Reach(h, n) == {n} \cup UNION {Reach(h, c) : c \in Range(child(h, n))}

\* ImcBase.__init__ run on a new object whose __dict__ so far is d0.
ImcBase_init(h, cls, d0, class_id) ==
    LET l == Len(h.lists) + 1
        d == DictSet(DictSet(DictSet(d0, "_class_id", Str(class_id)),
                             "_child", ListRef(l)), "_handle", None)
    IN [objs |-> Append(h.objs, [cls |-> cls, d |-> d]),
        lists |-> Append(h.lists, <<>>)]

BaseObject_init(h, class_id, tag_name) ==
    ImcBase_init(h, "BaseObject", DictSet(EmptyDict, "_tag_name", Str(tag_name)), class_id)

get_class_id(h, n) == Dict(h, n)["_class_id"]
get_handle(h, n) == Dict(h, n)["_handle"]

attr_set(h, n, key, value) ==
    [h EXCEPT !.objs[n].d = DictSet(@, key, value)]

\* attr_set run for every item of d (the keys are distinct: any order).
RECURSIVE SetAttrs(_, _, _)
SetAttrs(h, n, d) ==
    IF DOMAIN d = {} THEN h
    ELSE LET k == CHOOSE x \in DOMAIN d : TRUE
         IN SetAttrs(attr_set(h, n, k, d[k]), n, [x \in (DOMAIN d) \ {k} |-> d[x]])

child_add(h, n, obj) ==
    [h EXCEPT !.lists[Dict(h, n)["_child"].n] = Append(@, obj)]

\* list.remove: drops the first element equal to obj (objects compare by
\* identity), and raises ValueError when there is none.
ListRemove(s, x) ==
    LET i == CHOOSE j \in 1..Len(s) : s[j] = x /\ \A k \in 1..(j - 1) : s[k] # x
    IN SubSeq(s, 1, i - 1) \o SubSeq(s, i + 1, Len(s))

child_remove_silent(h, n, obj) ==
    IF obj \in Range(child(h, n))
    THEN [h |-> [h EXCEPT !.lists[Dict(h, n)["_child"].n] = ListRemove(@, obj)], err |-> "ok"]
    ELSE [h |-> h, err |-> "ok"]

child_remove(h, n, obj) ==
    IF obj \in Range(child(h, n))
    THEN [h |-> [h EXCEPT !.lists[Dict(h, n)["_child"].n] = ListRemove(@, obj)], err |-> "ok"]
    ELSE [h |-> h, err |-> "ValueError"]

child_count(h, n) == Len(child(h, n))

\* ------------------------------------------------------------ dirty tracking
RECURSIVE is_dirty(_, _)
child_is_dirty(h, n) == \E i \in 1..Len(child(h, n)) : is_dirty(h, child(h, n)[i])

is_dirty(h, n) == child_is_dirty(h, n)

mark_clean(h, n) == attr_set(h, n, "_dirty_mask", Num(0))

\* The dirty flag of a node is set when _dirty_mask is bound to a nonzero mask.
DirtyFlagSet(h, n) ==
    "_dirty_mask" \in DOMAIN Dict(h, n) /\ Dict(h, n)["_dirty_mask"] # Num(0)

\* ------------------------------------------------------------ cloning
\* copy.copy(self): a new object of the same class whose __dict__ binds the
\* same values, the _child list object included.
copy_copy(h, n) == [h EXCEPT !.objs = Append(@, h.objs[n])]

RECURSIVE deepcopy(_, _)
RECURSIVE deepcopy_children(_, _, _)
\* for child in clone._child: clone_child.append(copy.deepcopy(child))
deepcopy_children(h, kids, acc) ==
    IF kids = <<>> THEN [h |-> h, ret |-> acc]
    ELSE LET r == deepcopy(h, Head(kids))
         IN deepcopy_children(r.h, Tail(kids), Append(acc, r.ret))

\* A copy whose children are the source's own child objects, not copies of them.
deepcopy_shared_children(h, n) ==
    LET h1 == copy_copy(h, n)
        c == Len(h1.objs)
        l == Len(h1.lists) + 1
    IN [h |-> [objs |-> [h1.objs EXCEPT ![c].d["_child"] = ListRef(l)],
               lists |-> Append(h1.lists, child(h1, c))],
        ret |-> c]

\* ImcBase.__deepcopy__
deepcopy(h, n) ==
    LET h1 == copy_copy(h, n)
        c == Len(h1.objs)
        l == Len(h1.lists) + 1
        h2 == [h1 EXCEPT !.lists = Append(@, <<>>)]
        r == deepcopy_children(h2, child(h2, c), <<>>)
    IN [h |-> [objs |-> [r.h.objs EXCEPT ![c].d["_child"] = ListRef(l)],
               lists |-> [r.h.lists EXCEPT ![l] = r.ret]],
        ret |-> c]

clone(h, n) == deepcopy(h, n)

\* What a node holds, at every depth: its __dict__ (the children apart) and
\* the same of each child, in order.
RECURSIVE TreeVal(_, _)
TreeVal(h, n) ==
    [d |-> [k \in (DOMAIN Dict(h, n)) \ {"_child"} |-> Dict(h, n)[k]],
     kids |-> [i \in 1..Len(child(h, n)) |-> TreeVal(h, child(h, n)[i])]]

ListsOf(h, n) == {Dict(h, m)["_child"].n : m \in Reach(h, n)}

\* ------------------------------------------------------------ XML elements
\* An Element is [tag, attrib, kids]: its name, its attributes, its child
\* elements in document order.
Element(tag) == [tag |-> tag, attrib |-> EmptyDict, kids |-> <<>>]

\* Python truth of a value.
IsTrue(v) ==
    CASE v.t = "None" -> FALSE
      [] v.t = "str" -> v.s # ""
      [] v.t = "int" -> v.n # 0
      [] OTHER -> TRUE

\* str(value)
DigitStr == <<"1", "2", "3", "4", "5", "6", "7", "8", "9">>
PyStr(v) ==
    CASE v.t = "str" -> v
      [] v.t = "int" -> IF v.n = 0 THEN Str("0") ELSE Str(DigitStr[v.n])
      [] OTHER -> Str("None")

\* ImcBase.elem_create: the name of the element made.  xml_doc_given says
\* whether a parent element was passed.
elem_create(class_tag, xml_doc_given, override_tag) ==
    IF ~xml_doc_given THEN class_tag
    ELSE IF IsTrue(override_tag) THEN override_tag
    ELSE class_tag

\* for key in self.__dict__: if key.startswith("_"): continue; else xml_obj.set(...)
PublicAttrs(d) == [k \in {x \in DOMAIN d : ~startswith_underscore(x)} |-> d[k]]

RECURSIVE BaseObject_to_xml(_, _, _, _)
RECURSIVE child_to_xml(_, _, _, _)
\* The children written last to first.
child_to_xml_reversed(h, n, i, xml_obj) ==
    IF i > Len(child(h, n)) THEN [elem |-> xml_obj, err |-> "ok"]
    ELSE LET c == child(h, n)[i]
         IN IF h.objs[c].cls # "BaseObject"
            THEN [elem |-> xml_obj, err |-> "AttributeError"]
            ELSE LET r == BaseObject_to_xml(h, c, TRUE, None)
                     x == [xml_obj EXCEPT !.kids = <<r.elem>> \o @]
                 IN IF r.err # "ok" THEN [elem |-> x, err |-> r.err]
                    ELSE child_to_xml(h, n, i + 1, x)

\* ImcBase.child_to_xml, from the i-th child on: each child writes itself under
\* xml_obj.  A child of a class without to_xml (ImcCustomMethod,
\* OperationStatus) raises AttributeError; what was written stays.
child_to_xml(h, n, i, xml_obj) ==
    IF i > Len(child(h, n)) THEN [elem |-> xml_obj, err |-> "ok"]
    ELSE LET c == child(h, n)[i]
         IN IF h.objs[c].cls # "BaseObject"
            THEN [elem |-> xml_obj, err |-> "AttributeError"]
            ELSE LET r == BaseObject_to_xml(h, c, TRUE, None)
                     x == [xml_obj EXCEPT !.kids = Append(@, r.elem)]
                 IN IF r.err # "ok" THEN [elem |-> x, err |-> r.err]
                    ELSE child_to_xml(h, n, i + 1, x)

\* BaseObject.to_xml: [elem, err], the element made (under the parent when one
\* is given) and the error raised, if any.
BaseObject_to_xml(h, n, xml_doc_given, elem_name) ==
    LET tag == elem_create(Dict(h, n)["_tag_name"], xml_doc_given, elem_name)
        xml_obj == [tag |-> tag.s, attrib |-> PublicAttrs(Dict(h, n)), kids |-> <<>>]
    IN child_to_xml(h, n, 1, xml_obj)

\* ------------------------------------------------------------ collaborators of from_xml
\* imcgenutils.convert_to_python_var_name: a wire (camel case) name to the
\* internal (snake case) name; a name already internal is kept.
convert_to_python_var_name(name) ==
    CASE name = "adminState" -> "admin_state"
      [] name = "class" -> "class_"
      [] OTHER -> name

\* imcgenutils.word_u: the tag with its first letter in upper case.
word_u(tag) ==
    CASE tag = "computeBlade" -> "ComputeBlade"
      [] tag = "operationStatus" -> "OperationStatus"
      [] tag = "bogus" -> "Bogus"
      [] OTHER -> tag

\* The type registry: the class names it can resolve.
RegisteredTypes == {"ComputeBlade", "OperationStatus"}

\* The attributes of an element as from_xml and the registry store them.
RECURSIVE IngestAttrs(_, _, _)
IngestAttrs(h, n, attrib) ==
    IF DOMAIN attrib = {} THEN h
    ELSE LET k == CHOOSE x \in DOMAIN attrib : TRUE
         IN IngestAttrs(attr_set(h, n, convert_to_python_var_name(k), PyStr(attrib[k])),
                        n, [x \in (DOMAIN attrib) \ {k} |-> attrib[x]])

\* OperationStatus(**kwargs)
OperationStatus_init(h, kwargs) ==
    LET h1 == ImcBase_init(h, "OperationStatus",
                           DictSet(EmptyDict, "_tag_name", Str("operationStatus")),
                           "OperationStatus")
    IN SetAttrs(h1, Len(h1.objs), kwargs)

\* imccoreutils.get_imc_obj for a registered class name: an instance of the
\* class, populated from the element.
get_imc_obj(h, cln, elem) ==
    IF cln = "OperationStatus"
    THEN LET h1 == OperationStatus_init(h, EmptyDict)
         IN IngestAttrs(h1, Len(h1.objs), elem.attrib)
    ELSE LET h1 == BaseObject_init(h, cln, elem.tag)
         IN IngestAttrs(h1, Len(h1.objs), elem.attrib)

\* ------------------------------------------------------------ from_xml
\* BaseObject.from_xml: [h, err, visited], the heap after the call, the error
\* raised (the heap is then as the raise left it), and the nodes from_xml ran on.
RECURSIVE from_xml(_, _, _, _)
RECURSIVE from_xml_children(_, _, _, _, _)

\* An unresolved tag is skipped instead of raised.
from_xml_children_skip(h, self, elem, i, handle) ==
    IF i > Len(elem.kids) THEN [h |-> h, err |-> "ok", visited |-> {}]
    ELSE LET child_elem == elem.kids[i]
             cln == word_u(child_elem.tag)
         IN IF cln \notin RegisteredTypes
            THEN from_xml_children(h, self, elem, i + 1, handle)
            ELSE LET h1 == get_imc_obj(h, cln, child_elem)
                     c == Len(h1.objs)
                     h2 == child_add(h1, self, c)
                 IN IF h2.objs[c].cls = "OperationStatus"
                    THEN from_xml_children(h2, self, elem, i + 1, handle)
                    ELSE LET r == from_xml(h2, c, child_elem, handle)
                         IN IF r.err # "ok" THEN r
                            ELSE LET q == from_xml_children(r.h, self, elem, i + 1, handle)
                                 IN [q EXCEPT !.visited = @ \cup r.visited]

\* from_xml is run on a status child as on any other.
from_xml_children_descend(h, self, elem, i, handle) ==
    IF i > Len(elem.kids) THEN [h |-> h, err |-> "ok", visited |-> {}]
    ELSE LET child_elem == elem.kids[i]
             cln == word_u(child_elem.tag)
         IN IF cln \notin RegisteredTypes
            THEN [h |-> h, err |-> "UnknownTypeError", visited |-> {}]
            ELSE LET h1 == get_imc_obj(h, cln, child_elem)
                     c == Len(h1.objs)
                     h2 == child_add(h1, self, c)
                     r == from_xml(h2, c, child_elem, handle)
                 IN IF r.err # "ok" THEN r
                    ELSE LET q == from_xml_children(r.h, self, elem, i + 1, handle)
                         IN [q EXCEPT !.visited = @ \cup r.visited]

\* The loop over elem.getchildren(), from the i-th child element on.
from_xml_children(h, self, elem, i, handle) ==
    IF i > Len(elem.kids) THEN [h |-> h, err |-> "ok", visited |-> {}]
    ELSE LET child_elem == elem.kids[i]
             cln == word_u(child_elem.tag)
         IN IF cln \notin RegisteredTypes
            THEN [h |-> h, err |-> "UnknownTypeError", visited |-> {}]
            ELSE LET h1 == get_imc_obj(h, cln, child_elem)
                     c == Len(h1.objs)
                     h2 == child_add(h1, self, c)
                 IN IF h2.objs[c].cls = "OperationStatus"
                    THEN from_xml_children(h2, self, elem, i + 1, handle)
                    ELSE LET r == from_xml(h2, c, child_elem, handle)
                         IN IF r.err # "ok" THEN r
                            ELSE LET q == from_xml_children(r.h, self, elem, i + 1, handle)
                                 IN [q EXCEPT !.visited = @ \cup r.visited]

\* The handle is not passed down: the children are read with handle=None.
from_xml_handle_dropped(h, self, elem, handle) ==
    LET h1 == [h EXCEPT !.objs[self].d = DictSet(@, "_handle", handle)]
        h2 == IngestAttrs(h1, self, elem.attrib)
        r == from_xml_children(h2, self, elem, 1, None)
    IN [r EXCEPT !.visited = @ \cup {self}]

from_xml(h, self, elem, handle) ==
    LET h1 == [h EXCEPT !.objs[self].d = DictSet(@, "_handle", handle)]
        h2 == IngestAttrs(h1, self, elem.attrib)
        r == from_xml_children(h2, self, elem, 1, handle)
    IN [r EXCEPT !.visited = @ \cup {self}]

\* ------------------------------------------------------------ record of the last call
NoElem == [tag |-> "", attrib |-> EmptyDict, kids |-> <<>>]
Last(op, self) ==
    [op |-> op, self |-> self, obj |-> 0, key |-> "", val |-> None, ret |-> 0,
     flag |-> FALSE, err |-> "ok", elem |-> NoElem, base |-> 0, visited |-> {}]

\* ------------------------------------------------------------ inputs
Tags == {"computeBlade"}
\* attr_set's inputs: a public name, and each reserved field with a value of
\* the kind the field holds ("_child" is given a new empty list).
AttrInputs ==
    {<<"dn", Str("a")>>, <<"_dirty_mask", Num(1)>>, <<"_handle", Str("h2")>>,
     <<"_tag_name", Str("x")>>, <<"_child", ListRef(0)>>}

\* ------------------------------------------------------------ actions
Construct(tag) ==
    /\ LET h == BaseObject_init(Heap, "ComputeBlade", tag)
       IN /\ objs' = h.objs
          /\ lists' = h.lists
          /\ last' = [Last("init", Len(h.objs)) EXCEPT !.key = tag]
    /\ nops' = nops + 1
    /\ UNCHANGED <<docs, clones>>

\* obj is any node under which n does not lie: the tree stays acyclic.
ChildAdd(n, obj) ==
    /\ n \notin Reach(Heap, obj)
    /\ LET h == child_add(Heap, n, obj)
       IN /\ objs' = h.objs
          /\ lists' = h.lists
    /\ last' = [Last("child_add", n) EXCEPT !.obj = obj]
    /\ nops' = nops + 1
    /\ UNCHANGED <<docs, clones>>

ChildRemove(n, obj) ==
    /\ LET r == child_remove(Heap, n, obj)
       IN /\ objs' = r.h.objs
          /\ lists' = r.h.lists
          /\ last' = [Last("child_remove", n) EXCEPT !.obj = obj, !.err = r.err]
    /\ nops' = nops + 1
    /\ UNCHANGED <<docs, clones>>

\* The caller's value: for "_child" a list it has just made, else the value given.
AttrSet(n, key, value) ==
    /\ LET v == IF value.t = "list" THEN ListRef(Len(lists) + 1) ELSE value
           h0 == IF value.t = "list"
                 THEN [Heap EXCEPT !.lists = Append(@, <<>>)]
                 ELSE Heap
           h == attr_set(h0, n, key, v)
       IN /\ objs' = h.objs
          /\ lists' = h.lists
          /\ last' = [Last("attr_set", n) EXCEPT !.key = key, !.val = v]
    /\ nops' = nops + 1
    /\ UNCHANGED <<docs, clones>>

MarkClean(n) ==
    /\ LET h == mark_clean(Heap, n)
       IN /\ objs' = h.objs
          /\ lists' = h.lists
    /\ last' = Last("mark_clean", n)
    /\ nops' = nops + 1
    /\ UNCHANGED <<docs, clones>>

IsDirty(n) ==
    /\ last' = [Last("is_dirty", n) EXCEPT !.flag = is_dirty(Heap, n)]
    /\ UNCHANGED <<objs, lists, docs, clones, nops>>

\* ------------------------------------------------------------ claims: tree, dirty mask, attr_set
\* C1: after mark_clean() on n, the dirty flag of n and of every descendant of
\* n is clear, and is_dirty() is false at every node of n's subtree.
C1_MarkCleanClearsSubtree ==
    last.op = "mark_clean" =>
        \A m \in Reach(Heap, last.self) : ~DirtyFlagSet(Heap, m) /\ ~is_dirty(Heap, m)

\* C2: is_dirty() on n returns true iff some node of n's subtree (n or a
\* descendant) has its dirty flag set, and the call changes no state.
C2_IsDirtyIffFlagInSubtree ==
    [][last'.op = "is_dirty" =>
          /\ objs' = objs /\ lists' = lists
          /\ last'.flag <=> \E m \in Reach(Heap, last'.self) : DirtyFlagSet(Heap, m)]_vars

\* C8 as stated: child_remove(node) with a node that is not in children fails
\* silently (no error reaches the caller) and leaves children and child_count()
\* as they were.
C8_RemoveAbsentSilent ==
    [][(last'.op = "child_remove" /\ last'.obj \notin Range(child(Heap, last'.self))) =>
          /\ last'.err = "ok"
          /\ objs' = objs /\ lists' = lists]_vars

\* C8 amended: child_remove(node) with a node that is not in children raises
\* ValueError to the caller, and leaves children and child_count() as they were.
C8_RemoveAbsentRaises ==
    [][(last'.op = "child_remove" /\ last'.obj \notin Range(child(Heap, last'.self))) =>
          /\ last'.err = "ValueError"
          /\ objs' = objs /\ lists' = lists
          /\ child_count([objs |-> objs', lists |-> lists'], last'.self)
               = child_count(Heap, last'.self)]_vars

\* A child_remove of an absent node from a node that has children has run.
C8_Witness ==
    /\ last.op = "child_remove"
    /\ last.err = "ValueError"
    /\ child_count(Heap, last.self) > 0

\* C9: attr_set with a name that begins with "_" is rejected with an error and
\* leaves the node as it was, so the node's children, handle and tag stay.
C9_ReservedKeyRejected ==
    [][(last'.op = "attr_set" /\ startswith_underscore(last'.key)) =>
          /\ last'.err # "ok"
          /\ objs'[last'.self] = objs[last'.self]]_vars

\* ------------------------------------------------------------ specification
Init ==
    /\ objs = <<>>
    /\ lists = <<>>
    /\ docs = <<>>
    /\ clones = {}
    /\ nops = 0
    /\ last = Last("none", 0)

Next ==
    /\ nops < MaxOps
    /\ \/ \E tag \in Tags : Len(objs) < MaxObjs /\ Construct(tag)
       \/ \E n \in Nodes(Heap), obj \in Nodes(Heap) : ChildAdd(n, obj)
       \/ \E n \in Nodes(Heap), obj \in Nodes(Heap) : ChildRemove(n, obj)
       \/ \E n \in Nodes(Heap), kv \in AttrInputs : AttrSet(n, kv[1], kv[2])
       \/ \E n \in Nodes(Heap) : MarkClean(n)
       \/ \E n \in Nodes(Heap) : IsDirty(n)

Spec == Init /\ [][Next]_vars

\* ------------------------------------------------------------ trees a caller builds
\* A description of a tree: [tag, attrib, kids].  Build makes it with the
\* constructors, attr_set and child_add, the root first; the tag
\* "operationStatus" stands for an OperationStatus.
RECURSIVE Build(_, _)
RECURSIVE BuildKids(_, _, _, _)
BuildKids(h, n, kids, i) ==
    IF i > Len(kids) THEN h
    ELSE LET r == Build(h, kids[i])
         IN BuildKids(child_add(r.h, n, r.ret), n, kids, i + 1)

Build(h, desc) ==
    IF desc.tag = "operationStatus"
    THEN LET h1 == OperationStatus_init(h, desc.attrib)
             n == Len(h1.objs)
         IN [h |-> BuildKids(h1, n, desc.kids, 1), ret |-> n]
    ELSE LET h1 == BaseObject_init(h, word_u(desc.tag), desc.tag)
             n == Len(h1.objs)
         IN [h |-> BuildKids(SetAttrs(h1, n, desc.attrib), n, desc.kids, 1), ret |-> n]

\* Every ordered tree of exactly n nodes (ForestsOf: every sequence of trees
\* of m nodes in all), each node labelled with a [tag, attrib] of `labels`.
RECURSIVE TreesOf(_, _)
RECURSIVE ForestsOf(_, _)
ForestsOf(m, labels) ==
    IF m = 0 THEN {<<>>}
    ELSE UNION {{<<t>> \o f : t \in TreesOf(k, labels), f \in ForestsOf(m - k, labels)} :
                  k \in 1..m}

TreesOf(n, labels) ==
    {[tag |-> l.tag, attrib |-> l.attrib, kids |-> f] :
        l \in labels, f \in ForestsOf(n - 1, labels)}

TreesUpTo(n, labels) == UNION {TreesOf(k, labels) : k \in 1..n}

\* ------------------------------------------------------------ clone: specification
MaxTreeSize == 3
MaxCloneObjs == 7
MaxCloneOps == 2

CloneLabels == {[tag |-> "computeBlade", attrib |-> EmptyDict]}
CloneAttrInputs == {<<"dn", Str("a")>>, <<"_child", ListRef(0)>>}

Clone(n) ==
    /\ LET r == clone(Heap, n)
       IN /\ objs' = r.h.objs
          /\ lists' = r.h.lists
          /\ last' = [Last("clone", n) EXCEPT !.ret = r.ret]
          /\ clones' = clones \cup {<<n, r.ret>>}
    /\ nops' = nops + 1
    /\ UNCHANGED docs

\* The caller has built a tree, and constructed one more node.
InitClone ==
    /\ \E desc \in TreesUpTo(MaxTreeSize, CloneLabels) :
          LET r == Build([objs |-> <<>>, lists |-> <<>>], desc)
              h == BaseObject_init(r.h, "ComputeBlade", "computeBlade")
          IN objs = h.objs /\ lists = h.lists
    /\ docs = <<>>
    /\ clones = {}
    /\ nops = 0
    /\ last = Last("none", 0)

\* The nodes of every source and clone so far.
CloneNodes == UNION {Reach(Heap, p[1]) \cup Reach(Heap, p[2]) : p \in clones}

\* The caller adds under a node only nodes that are part of no source and of
\* no clone (it does not itself graft one tree into the other), and removes
\* a child of the node or a node that is not one (the node itself).
NextClone ==
    /\ nops < MaxCloneOps
    /\ \/ \E n \in Nodes(Heap) :
             Len(objs) + Cardinality(Reach(Heap, n)) <= MaxCloneObjs /\ Clone(n)
       \/ \E n \in Nodes(Heap), obj \in Nodes(Heap) :
             Reach(Heap, obj) \cap CloneNodes = {} /\ ChildAdd(n, obj)
       \/ \E n \in Nodes(Heap) : \E obj \in Range(child(Heap, n)) \cup {n} : ChildRemove(n, obj)
       \/ \E n \in Nodes(Heap), kv \in CloneAttrInputs : AttrSet(n, kv[1], kv[2])

SpecClone == InitClone /\ [][NextClone]_vars

\* C3: after c = t.clone(), the clone and the source share no node and no
\* children list at any depth, and an attr_set, child_add or child_remove on a
\* node of the clone leaves the source's tree (attributes and children at
\* every depth) as it was, and the same with source and clone exchanged.
C3_CloneIndependent ==
    [][/\ last'.op = "clone" =>
            LET h == [objs |-> objs', lists |-> lists']
            IN /\ Reach(h, last'.self) \cap Reach(h, last'.ret) = {}
               /\ ListsOf(h, last'.self) \cap ListsOf(h, last'.ret) = {}
               /\ TreeVal(h, last'.ret) = TreeVal(Heap, last'.self)
               /\ TreeVal(h, last'.self) = TreeVal(Heap, last'.self)
       /\ last'.op \in {"attr_set", "child_add", "child_remove"} =>
            \A p \in clones :
               LET h == [objs |-> objs', lists |-> lists']
               IN /\ last'.self \in Reach(Heap, p[2]) => TreeVal(h, p[1]) = TreeVal(Heap, p[1])
                  /\ last'.self \in Reach(Heap, p[1]) => TreeVal(h, p[2]) = TreeVal(Heap, p[2])]_vars

\* A node below the root of a clone has been changed while the source has
\* children of its own.
C3_Witness ==
    /\ last.op \in {"attr_set", "child_add", "child_remove"}
    /\ last.err = "ok"
    /\ \E p \in clones :
          /\ last.self \in Reach(Heap, p[2]) \ {p[2]}
          /\ child_count(Heap, p[1]) > 0

\* ------------------------------------------------------------ from_xml: specification
MaxDocKids == 3

\* The parsed documents handed to from_xml: a root element over up to
\* MaxDocKids descendant elements.  An attribute value is a str, as the parser
\* gives it; "bogus" is a tag the registry does not know.
XmlLabels ==
    {[tag |-> "computeBlade", attrib |-> DictSet(EmptyDict, "adminState", Str("b"))],
     [tag |-> "operationStatus", attrib |-> DictSet(EmptyDict, "dn", Str("a"))],
     [tag |-> "bogus", attrib |-> EmptyDict]}
RootLabels ==
    {[tag |-> "computeBlade", attrib |-> EmptyDict],
     [tag |-> "computeBlade", attrib |-> DictSet(EmptyDict, "adminState", Str("b"))]}
ParsedDocs ==
    {[tag |-> l.tag, attrib |-> l.attrib, kids |-> f] :
        l \in RootLabels, f \in UNION {ForestsOf(m, XmlLabels) : m \in 0..MaxDocKids}}
Handles == {None, Str("h1")}

FromXml(n, elem, handle) ==
    /\ objs[n].cls = "BaseObject"
    /\ LET r == from_xml(Heap, n, elem, handle)
       IN /\ objs' = r.h.objs
          /\ lists' = r.h.lists
          /\ last' = [Last("from_xml", n) EXCEPT !.elem = elem, !.val = handle,
                          !.err = r.err, !.visited = r.visited,
                          !.base = Len(objs), !.ret = child_count(Heap, n)]
    /\ nops' = nops + 1
    /\ UNCHANGED <<docs, clones>>

\* A response is read into a node the caller has constructed, which may
\* already have a child.
InitFromXml ==
    /\ \E desc \in TreesUpTo(1 + 1, CloneLabels) :
          LET r == Build([objs |-> <<>>, lists |-> <<>>], desc)
          IN objs = r.h.objs /\ lists = r.h.lists
    /\ docs = <<>>
    /\ clones = {}
    /\ nops = 0
    /\ last = Last("none", 0)

\* One response is read.
NextFromXml ==
    /\ last.op = "none"
    /\ \E n \in Nodes(Heap), elem \in ParsedDocs, handle \in Handles : FromXml(n, elem, handle)

SpecFromXml == InitFromXml /\ [][NextFromXml]_vars

\* The nodes constructed by the last call.
NewNodes == (last.base + 1)..Len(objs)
Unresolved(e) == word_u(e.tag) \notin RegisteredTypes
IsStatusElem(e) == word_u(e.tag) = "OperationStatus"

\* Reading e runs into an unresolved child element: a child element that is
\* unresolved, or one (not a status element) whose reading does.
RECURSIVE Fails(_)
Fails(e) ==
    \E i \in 1..Len(e.kids) :
        \/ Unresolved(e.kids[i])
        \/ ~IsStatusElem(e.kids[i]) /\ Fails(e.kids[i])
FirstFailing(e) ==
    CHOOSE i \in 1..Len(e.kids) :
        /\ Unresolved(e.kids[i]) \/ (~IsStatusElem(e.kids[i]) /\ Fails(e.kids[i]))
        /\ \A j \in 1..(i - 1) :
              ~(Unresolved(e.kids[j]) \/ (~IsStatusElem(e.kids[j]) /\ Fails(e.kids[j])))

\* Node n holds what from_xml makes of element e, `pre` children having been
\* there before: one child per child element, in order and of its tag; a
\* status child has no children; any other child holds its own element.
RECURSIVE Deserialized(_, _, _, _)
Deserialized(h, n, e, pre) ==
    /\ child_count(h, n) = pre + Len(e.kids)
    /\ \A i \in 1..Len(e.kids) :
          LET c == child(h, n)[pre + i]
          IN /\ Dict(h, c)["_tag_name"] = Str(e.kids[i].tag)
             /\ IF h.objs[c].cls = "OperationStatus"
                THEN child_count(h, c) = 0
                ELSE Deserialized(h, c, e.kids[i], 0)

\* How many times node m stands in a children list.
Occurrences(h, m) ==
    Cardinality({<<l, i>> \in (1..Len(h.lists)) \X (1..Len(h.objs)) :
                    i <= Len(h.lists[l]) /\ h.lists[l][i] = m})

\* C5: when from_xml meets a child element whose tag the registry does not
\* know, UnknownTypeError reaches the caller and no node for that element is
\* appended: the node's children are those it had and one for each child
\* element before the failing one, and every node made is of a registered type.
C5_UnknownTagRaises ==
    (last.op = "from_xml" /\ Fails(last.elem)) =>
        /\ last.err = "UnknownTypeError"
        /\ \A m \in NewNodes : get_class_id(Heap, m).s \in RegisteredTypes
        /\ LET i == FirstFailing(last.elem)
           IN child_count(Heap, last.self)
                = last.ret + (IF Unresolved(last.elem.kids[i]) THEN i - 1 ELSE i)

\* from_xml has met an unresolved child element after a resolved sibling.
C5_Witness ==
    /\ last.op = "from_xml"
    /\ last.err = "UnknownTypeError"
    /\ Len(last.elem.kids) > 1
    /\ Unresolved(last.elem.kids[2])
    /\ child_count(Heap, last.self) = 1

\* C6: a child element resolved to OperationStatus is appended exactly once,
\* from_xml is never run on it, it ends with no children whatever is nested in
\* its element, and the siblings after it are still processed.
C6_StatusTerminal ==
    last.op = "from_xml" =>
        /\ \A m \in NewNodes :
              Heap.objs[m].cls = "OperationStatus" =>
                  /\ m \notin last.visited
                  /\ child_count(Heap, m) = 0
                  /\ Occurrences(Heap, m) = 1
        /\ last.err = "ok" => Deserialized(Heap, last.self, last.elem, last.ret)

\* from_xml has read a status element that has a nested element and a
\* sibling after it.
C6_Witness ==
    /\ last.op = "from_xml"
    /\ last.err = "ok"
    /\ \E i \in 1..Len(last.elem.kids) :
          /\ IsStatusElem(last.elem.kids[i])
          /\ Len(last.elem.kids[i].kids) > 0
          /\ i < Len(last.elem.kids)

\* C7 as stated: after from_xml(elem, h) returns, the root and every node
\* constructed during the call, OperationStatus children included, has its
\* handle equal to h.
C7_HandleEverywhere ==
    (last.op = "from_xml" /\ last.err = "ok") =>
        \A m \in NewNodes \cup {last.self} : get_handle(Heap, m) = last.val

\* C7 amended: after from_xml(elem, h) returns, the root and every node
\* constructed during the call that is not an OperationStatus has its handle
\* equal to h; an OperationStatus child keeps the handle None of its
\* construction.
C7_HandleExceptStatus ==
    (last.op = "from_xml" /\ last.err = "ok") =>
        \A m \in NewNodes \cup {last.self} :
            get_handle(Heap, m) =
                IF Heap.objs[m].cls = "OperationStatus" THEN None ELSE last.val

\* from_xml has returned with a handle, having made a status child and a
\* grandchild.
C7_Witness ==
    /\ last.op = "from_xml"
    /\ last.err = "ok"
    /\ last.val # None
    /\ \E m \in NewNodes : Heap.objs[m].cls = "OperationStatus"
    /\ \E m \in NewNodes : m \notin Range(child(Heap, last.self))

\* ------------------------------------------------------------ to_xml and the round trip: specification
\* The trees a caller builds: nodes with no attribute, with an attribute under
\* an internal name, under a wire name, with an int value; a node whose tag
\* the registry does not know; an OperationStatus.
RtLabels ==
    {[tag |-> "computeBlade", attrib |-> EmptyDict],
     [tag |-> "computeBlade", attrib |-> DictSet(EmptyDict, "admin_state", Str("a"))],
     [tag |-> "computeBlade", attrib |-> DictSet(EmptyDict, "adminState", Str("b"))],
     [tag |-> "computeBlade", attrib |-> DictSet(EmptyDict, "dn", Num(1))],
     [tag |-> "bogus", attrib |-> EmptyDict],
     [tag |-> "operationStatus", attrib |-> EmptyDict]}

\* The parent element a caller passes to to_xml, and the override names.
ParentElem == Element("configConfMo")
ElemNames == {None, Str("ovr")}

\* n.to_xml(xml_doc, elem_name=elem_name), xml_doc being ParentElem or None:
\* docs holds the parent element after the call.
ToXml(n, xml_doc_given, elem_name) ==
    /\ objs[n].cls = "BaseObject"
    /\ LET r == BaseObject_to_xml(Heap, n, xml_doc_given, elem_name)
       IN /\ last' = [Last("to_xml", n) EXCEPT !.flag = xml_doc_given, !.val = elem_name,
                           !.elem = r.elem, !.err = r.err]
          /\ docs' = IF xml_doc_given
                     THEN <<[ParentElem EXCEPT !.kids = Append(@, r.elem)]>>
                     ELSE <<>>
    /\ UNCHANGED <<objs, lists, clones, nops>>

\* fresh = BaseObject(n's class id, n's tag); fresh.from_xml(n.to_xml(), handle)
RoundTrip(n, handle) ==
    /\ objs[n].cls = "BaseObject"
    /\ LET r == BaseObject_to_xml(Heap, n, FALSE, None)
           h1 == BaseObject_init(Heap, get_class_id(Heap, n).s, Dict(Heap, n)["_tag_name"].s)
           fresh == Len(h1.objs)
           q == from_xml(h1, fresh, r.elem, handle)
       IN IF r.err # "ok"
          THEN /\ last' = [Last("round_trip", n) EXCEPT !.err = r.err, !.val = handle]
               /\ UNCHANGED <<objs, lists>>
          ELSE /\ objs' = q.h.objs
               /\ lists' = q.h.lists
               /\ last' = [Last("round_trip", n) EXCEPT !.err = q.err, !.val = handle,
                                !.elem = r.elem, !.ret = fresh, !.base = Len(objs),
                                !.visited = q.visited]
    /\ nops' = nops + 1
    /\ UNCHANGED <<docs, clones>>

InitXml ==
    /\ \E desc \in TreesUpTo(MaxTreeSize, RtLabels) :
          LET r == Build([objs |-> <<>>, lists |-> <<>>], desc)
          IN objs = r.h.objs /\ lists = r.h.lists
    /\ docs = <<>>
    /\ clones = {}
    /\ nops = 0
    /\ last = Last("none", 0)

\* One call is made on the tree.
NextXml ==
    /\ last.op = "none"
    /\ \/ \E n \in Nodes(Heap), g \in BOOLEAN, elem_name \in ElemNames : ToXml(n, g, elem_name)
       \/ \E n \in Nodes(Heap), handle \in Handles : RoundTrip(n, handle)

SpecXml == InitXml /\ [][NextXml]_vars

\* What the round trip is to keep: the tag and the public attributes of a
\* node, and the same of its children, in order, at every depth.
RECURSIVE TreeShape(_, _)
TreeShape(h, n) ==
    [tag |-> Dict(h, n)["_tag_name"],
     attrib |-> PublicAttrs(Dict(h, n)),
     kids |-> [i \in 1..Len(child(h, n)) |-> TreeShape(h, child(h, n)[i])]]

AllStrings(h, n) ==
    \A m \in Reach(h, n) : \A k \in DOMAIN PublicAttrs(Dict(h, m)) : Dict(h, m)[k].t = "str"
NoStatusBelow(h, n) ==
    \A m \in Reach(h, n) : h.objs[m].cls # "OperationStatus"
\* Every attribute name is one the naming conversion leaves as it is.
InternalNames(h, n) ==
    \A m \in Reach(h, n) : \A k \in DOMAIN PublicAttrs(Dict(h, m)) :
        convert_to_python_var_name(k) = k
\* Every tag below n resolves in the registry, to a type that is not
\* OperationStatus.
TagsResolve(h, n) ==
    \A m \in Reach(h, n) \ {n} :
        word_u(Dict(h, m)["_tag_name"].s) \in RegisteredTypes \ {"OperationStatus"}

\* C4 as stated: for a BaseObject tree T with only str attributes and no
\* OperationStatus descendant, from_xml of T.to_xml() on a fresh node of the
\* same type returns and gives a tree with T's attributes at every node and
\* T's child tags, in order, at every depth.
C4_RoundTrip ==
    (/\ last.op = "round_trip"
     /\ AllStrings(Heap, last.self)
     /\ NoStatusBelow(Heap, last.self)) =>
        /\ last.err = "ok"
        /\ TreeShape(Heap, last.ret) = TreeShape(Heap, last.self)

\* C4 amended: the same, for a tree T whose attribute names are all names the
\* naming conversion leaves unchanged and whose descendants' tags all resolve
\* in the registry to types other than OperationStatus.
C4_RoundTripResolved ==
    (/\ last.op = "round_trip"
     /\ AllStrings(Heap, last.self)
     /\ NoStatusBelow(Heap, last.self)
     /\ InternalNames(Heap, last.self)
     /\ TagsResolve(Heap, last.self)) =>
        /\ last.err = "ok"
        /\ TreeShape(Heap, last.ret) = TreeShape(Heap, last.self)
        /\ Reach(Heap, last.ret) \cap Reach(Heap, last.self) = {}

\* A tree of two unlike children, one with an attribute, has made the round trip.
C4_Witness ==
    /\ last.op = "round_trip"
    /\ last.err = "ok"
    /\ InternalNames(Heap, last.self) /\ TagsResolve(Heap, last.self)
    /\ child_count(Heap, last.self) = 2
    /\ TreeShape(Heap, child(Heap, last.self)[1]) # TreeShape(Heap, child(Heap, last.self)[2])
    /\ TreeShape(Heap, last.ret) = TreeShape(Heap, last.self)

\* C10: to_xml with no parent returns a root element named by the override
\* name when one is given, else by the node's tag; with a parent it makes an
\* element under the parent, named by the override name if given, else by the
\* tag.
C10_ElementNaming ==
    (last.op = "to_xml" /\ last.err = "ok") =>
        /\ last.elem.tag = IF last.val # None THEN last.val.s
                           ELSE Dict(Heap, last.self)["_tag_name"].s
        /\ IF last.flag
           THEN docs = <<[ParentElem EXCEPT !.kids = Append(@, last.elem)]>>
           ELSE docs = <<>>

====
